---- MODULE Spec2Model ----
(***************************************************************************)
(* git-rollout (gitrollout/repo.py): a mirror of a remote repository and   *)
(* one checked-out directory per branch and per tag.                       *)
(*                                                                         *)
(* A ref name is a sequence of one-character strings. A revision id is a   *)
(* string. A ref mapping (name -> revision id) is a function whose DOMAIN  *)
(* is the set of names of the refs.                                        *)
(***************************************************************************)
EXTENDS Integers, Sequences, FiniteSets, TLC

VARIABLES
    arg,        \* the arguments of a call of a pure function (is_valid_name, get_diff)
    ret,        \* ... and its return value
    upstream,   \* the remote repository: namespace -> ref mapping
    mirror,     \* the mirror repository: None before it is cloned, else <<namespace -> ref mapping>>
    tree,       \* the checkout trees: namespace -> (name -> revision checked out)
    cfg,        \* MirrorHub.branchesConfig / tagsConfig: namespace -> None or <<a TargetConfig>>
    diffs,      \* the diffs the run applies: namespace -> diff
    pc,         \* the statement the run is at
    ns,         \* refType of the _apply_diff call in progress
    idx,        \* the position of the loop of _remove / _add in its refNames
    log,        \* what the run did so far: filesystem calls and emit calls, in order
    hook,       \* the exit status subprocess.call returned in the step just taken, else -1
    hist,       \* the outcomes of the runs that ended, in order
    start,      \* the checkout trees when the _apply_diff call in progress began
    todo,       \* the refTypes the caller of _apply_diff has still to apply
    changes     \* the number of upstream ref changes so far

vars == <<arg, ret, upstream, mirror, tree, cfg, diffs, pc, ns, idx, log, hook, hist,
          start, todo, changes>>

(***************************************************************************)
(* Bounds of the model.                                                    *)
(***************************************************************************)
MaxNameLen == 3     \* the longest name handed to is_valid_name on its own
MaxRuns == 3        \* the runs of MirrorHub in one behaviour
MaxChanges == 2     \* the upstream ref changes in one behaviour

(***************************************************************************)
(* Characters and names.                                                   *)
(***************************************************************************)
None == <<>>        \* Python's None; a value v that may be None is <<v>>
NUL == "NUL"        \* stands for the character \0
DotStar == ".*"     \* the regular expression .* as one pattern element
Chars == {"a", "b", ".", "/", "$", NUL, "\n", "\t"}

RECURSIVE SeqsUpTo(_, _)
SeqsUpTo(S, n) ==
    IF n = 0 THEN {<<>>}
    ELSE LET shorter == SeqsUpTo(S, n - 1)
         IN  shorter \cup {Append(s, c) : s \in {t \in shorter : Len(t) = n - 1}, c \in S}

(***************************************************************************)
(* Regular expressions (re.compile, re.match): a pattern is a sequence of  *)
(* literal characters and DotStar. re.match anchors at position 0 and      *)
(* accepts any rest of the string; '.' matches anything but a newline.     *)
(***************************************************************************)
RECURSIVE ReMatch(_, _)
ReMatch(pat, s) ==
    IF pat = <<>> THEN TRUE
    ELSE IF Head(pat) = DotStar
         THEN \E k \in 0..Len(s) :
                 /\ \A j \in 1..k : s[j] # "\n"
                 /\ ReMatch(Tail(pat), SubSeq(s, k + 1, Len(s)))
         ELSE s # <<>> /\ Head(s) = Head(pat) /\ ReMatch(Tail(pat), Tail(s))

(***************************************************************************)
(* re.search(r'^\.|.*[/$\0\n\t]', name): <<the text of the leftmost        *)
(* match>>, or NoMatch if there is none. At a start position the           *)
(* alternative ^\. is tried first; .* is greedy, so the second alternative *)
(* ends at the last character of the class it can reach without crossing   *)
(* a newline.                                                              *)
(***************************************************************************)
NoMatch == <<>>
NastyClass == {"/", "$", NUL, "\n", "\t"}

NastyEnds(name, i) ==
    {j \in i..Len(name) : name[j] \in NastyClass /\ \A k \in i..(j - 1) : name[k] # "\n"}

MaxOf(S) == CHOOSE x \in S : \A y \in S : y <= x
MinOf(S) == CHOOSE x \in S : \A y \in S : x <= y

NastyMatchAt(name, i) ==
    IF i = 1 /\ Len(name) >= 1 /\ name[1] = "." THEN <<<<".">>>>
    ELSE IF NastyEnds(name, i) # {} THEN <<SubSeq(name, i, MaxOf(NastyEnds(name, i)))>>
    ELSE NoMatch

NastySearchAnyDot(name) ==
    LET hits == {i \in 1..Len(name) : name[i] = "." \/ NastyMatchAt(name, i) # NoMatch}
    IN  IF hits = {} THEN NoMatch
        ELSE IF name[MinOf(hits)] = "." THEN <<<<".">>>>
        ELSE NastyMatchAt(name, MinOf(hits))

NastySearch(name) ==
    LET hits == {i \in 1..Len(name) : NastyMatchAt(name, i) # NoMatch}
    IN  IF hits = {} THEN NoMatch ELSE NastyMatchAt(name, MinOf(hits))

(***************************************************************************)
(* TargetConfig.is_valid_name: the value returned and the lines printed to *)
(* stderr, each the name and the text shown after "contains".              *)
(***************************************************************************)
DefaultFilters == <<<<DotStar>>>>

FiltersMatch(filters, name) == \E f \in 1..Len(filters) : ReMatch(filters[f], name)

is_valid_name(filters, name) ==
    IF ~FiltersMatch(filters, name)
    THEN [ok |-> FALSE, diag |-> <<>>]
    ELSE IF NastySearch(name) # NoMatch
         THEN [ok |-> FALSE, diag |-> <<[name |-> name, contains |-> NastySearch(name)[1]]>>]
         ELSE [ok |-> TRUE, diag |-> <<>>]

(***************************************************************************)
(* Repo.get_diff. DiffSets is the four sets it computes; list() then puts  *)
(* each set in an order the language leaves open, so get_diff is the set   *)
(* of the values the call may return.                                      *)
(***************************************************************************)
Range(s) == {s[i] : i \in 1..Len(s)}

\* list(aSet): the elements of the set in some order
Lists(S) == {l \in [1..Cardinality(S) -> S] : Range(l) = S}

ModifiedIgnoringRevision(before, after) == DOMAIN before \cap DOMAIN after

Modified(before, after) ==
    {name \in DOMAIN before \cap DOMAIN after : before[name] # after[name]}

DiffSetsSwapped(before, after) ==
    LET beforeSet == DOMAIN before
        afterSet == DOMAIN after
        removed == afterSet \ beforeSet
        added == beforeSet \ afterSet
        modified == Modified(before, after)
        unmodified == (beforeSet \cap afterSet) \ modified
    IN  [removed |-> removed, added |-> added,
         modified |-> modified, unmodified |-> unmodified]

DiffSets(before, after) ==
    LET beforeSet == DOMAIN before
        afterSet == DOMAIN after
        removed == beforeSet \ afterSet
        added == afterSet \ beforeSet
        modified == Modified(before, after)
        unmodified == (beforeSet \cap afterSet) \ modified
    IN  [removed |-> removed, added |-> added,
         modified |-> modified, unmodified |-> unmodified]

get_diff(before, after) ==
    LET d == DiffSets(before, after)
    IN  {[removed |-> r, added |-> a, modified |-> m, unmodified |-> u] :
            r \in Lists(d.removed), a \in Lists(d.added),
            m \in Lists(d.modified), u \in Lists(d.unmodified)}

(***************************************************************************)
(* The state of a run of MirrorHub.                                        *)
(***************************************************************************)
NS == {"branches", "tags"}
main == <<"m", "a", "i", "n">>
dev == <<"d", "e", "v">>
slashed == <<"a", "/", "b">>
Names == {main, dev, slashed}
Revs == {"abc", "def", "111"}
Partial == "partly deleted"

RefMappings == UNION {[S -> Revs] : S \in SUBSET Names}
Filters == {DefaultFilters, <<<<"m", "a">>>>}
TargetConfigs == {[filters |-> f, eventCmd |-> e] : f \in Filters, e \in {None, <<"hook">>}}
EmptyDiff == [removed |-> <<>>, added |-> <<>>, modified |-> <<>>, unmodified |-> <<>>]

EmptyMap == [n \in {} |-> "abc"]
Drop(m, name) == [n \in DOMAIN m \ {name} |-> m[n]]
Put(m, name, rev) == [n \in DOMAIN m \cup {name} |-> IF n = name THEN rev ELSE m[n]]

\* one entry of the log: a filesystem call on {config.path}/{name} (op is exists,
\* rmtree or clone) or a call of config.emit (op is the event); by is the method
\* that made the call, res is "returns" or the exception the call raised
Entry(op, by, refType, name, res) ==
    [op |-> op, by |-> by, ns |-> refType, name |-> name, res |-> res]

Events == {"pre-remove", "post-remove", "pre-add", "post-add"}

(***************************************************************************)
(* TargetConfig.emit: the possible outcomes of one call. The command is    *)
(* not run when eventCmd is None. subprocess.call returns the exit status  *)
(* of the command, which emit drops, or raises OSError when the command    *)
(* cannot be started.                                                      *)
(***************************************************************************)
SubprocessCall ==
    {[status |-> 0, raised |-> FALSE], [status |-> 1, raised |-> FALSE],
     [status |-> -1, raised |-> TRUE]}

emitCheckingStatus(config) ==
    IF config.eventCmd = None
    THEN {[status |-> -1, res |-> "returns"]}
    ELSE {[status |-> c.status,
           res |-> IF c.raised THEN "OSError"
                   ELSE IF c.status # 0 THEN "CalledProcessError" ELSE "returns"] :
            c \in SubprocessCall}

emit(config) ==
    IF config.eventCmd = None
    THEN {[status |-> -1, res |-> "returns"]}
    ELSE {[status |-> c.status, res |-> IF c.raised THEN "OSError" ELSE "returns"] :
            c \in SubprocessCall}

(***************************************************************************)
(* self.repo.clone(path, branch=name, depth=1): the revision checked out.  *)
(* The call names the ref by its short name only, and git resolves         *)
(* --branch among the branches first and among the tags second. None when  *)
(* the mirror has no such ref (the clone fails).                           *)
(***************************************************************************)
CloneRevision(m, name) ==
    IF name \in DOMAIN m.branches THEN <<m.branches[name]>>
    ELSE IF name \in DOMAIN m.tags THEN <<m.tags[name]>>
    ELSE None

\* an exception leaves the run, since repo.py has no handler; hist gets the call
\* that raised it
Raise(what) ==
    /\ pc' = "aborted"
    /\ hist' = Append(hist, what)
    /\ todo' = <<>>

config == cfg[ns][1]
name_valid(name) == is_valid_name(config.filters, name).ok

(***************************************************************************)
(* MirrorHub._apply_diff                                                   *)
(***************************************************************************)
RemoveNamesRemovedOnly(diff) == diff.removed

RemoveNames(diff) == diff.removed \o diff.modified

AddNamesAddedFirst(diff) == diff.added \o diff.modified

AddNamesWithUnmodified(diff) == diff.modified \o diff.added \o diff.unmodified

AddNames(diff) == diff.modified \o diff.added

ApplyDiffNeedingBothConfigs ==
    /\ pc = "apply"
    /\ IF \E n \in NS : cfg[n] = None
       THEN pc' = "return" /\ UNCHANGED idx
       ELSE pc' = "rm_loop" /\ idx' = 1
    /\ start' = tree
    /\ hook' = -1
    /\ UNCHANGED <<arg, ret, upstream, mirror, tree, cfg, diffs, ns, log, hist,
                   todo, changes>>

ApplyDiff ==
    /\ pc = "apply"
    /\ IF cfg[ns] = None
       THEN pc' = "return" /\ UNCHANGED idx
       ELSE pc' = "rm_loop" /\ idx' = 1
    /\ start' = tree
    /\ hook' = -1
    /\ UNCHANGED <<arg, ret, upstream, mirror, tree, cfg, diffs, ns, log, hist,
                   todo, changes>>

Return ==
    /\ pc = "return"
    /\ IF todo = <<>>
       THEN pc' = "done" /\ hist' = Append(hist, "ok") /\ UNCHANGED <<ns, todo>>
       ELSE pc' = "apply" /\ ns' = Head(todo) /\ todo' = Tail(todo) /\ UNCHANGED hist
    /\ hook' = -1
    /\ UNCHANGED <<arg, ret, upstream, mirror, tree, cfg, diffs, idx, log, start,
                   changes>>

(***************************************************************************)
(* MirrorHub._remove                                                       *)
(***************************************************************************)
rm_name == RemoveNames(diffs[ns])[idx]

RemoveLoopUnchecked ==
    /\ pc = "rm_loop"
    /\ IF idx > Len(RemoveNames(diffs[ns]))
       THEN pc' = "add_loop" /\ idx' = 1
       ELSE pc' = "rm_exists" /\ UNCHANGED idx
    /\ hook' = -1
    /\ UNCHANGED <<arg, ret, upstream, mirror, tree, cfg, diffs, ns, log, hist,
                   start, todo, changes>>

RemoveLoop ==
    /\ pc = "rm_loop"
    /\ IF idx > Len(RemoveNames(diffs[ns]))
       THEN pc' = "add_loop" /\ idx' = 1
       ELSE IF ~name_valid(rm_name)
            THEN pc' = "rm_loop" /\ idx' = idx + 1
            ELSE pc' = "rm_exists" /\ UNCHANGED idx
    /\ hook' = -1
    /\ UNCHANGED <<arg, ret, upstream, mirror, tree, cfg, diffs, ns, log, hist,
                   start, todo, changes>>

RemoveExistsAssumed ==
    /\ pc = "rm_exists"
    /\ log' = Append(log, Entry("exists", "_remove", ns, rm_name, "returns"))
    /\ pc' = "rm_pre"
    /\ hook' = -1
    /\ UNCHANGED <<arg, ret, upstream, mirror, tree, cfg, diffs, ns, idx, hist,
                   start, todo, changes>>

RemoveExists ==
    /\ pc = "rm_exists"
    /\ log' = Append(log, Entry("exists", "_remove", ns, rm_name, "returns"))
    /\ IF rm_name \in DOMAIN tree[ns]
       THEN pc' = "rm_pre" /\ UNCHANGED idx
       ELSE pc' = "rm_loop" /\ idx' = idx + 1
    /\ hook' = -1
    /\ UNCHANGED <<arg, ret, upstream, mirror, tree, cfg, diffs, ns, hist,
                   start, todo, changes>>

\* config.emit(refType, event, name, ...) and then the statement at next
Emit(event, by, name, next, nextIdx) ==
    \E o \in emit(config) :
        /\ log' = Append(log, Entry(event, by, ns, name, o.res))
        /\ hook' = o.status
        /\ IF o.res # "returns"
           THEN Raise("emit") /\ UNCHANGED idx
           ELSE pc' = next /\ idx' = nextIdx /\ UNCHANGED <<hist, todo>>
        /\ UNCHANGED <<arg, ret, upstream, mirror, tree, cfg, diffs, ns, start, changes>>

\* shutil.rmtree(path) and then the statement at next
Rmtree(by, name, next) ==
    /\ \/ /\ tree' = [tree EXCEPT ![ns] = Drop(@, name)]
          /\ log' = Append(log, Entry("rmtree", by, ns, name, "returns"))
          /\ pc' = next
          /\ UNCHANGED <<hist, todo>>
       \/ /\ \E left \in {tree[ns][name], Partial} :
                tree' = [tree EXCEPT ![ns][name] = left]
          /\ log' = Append(log, Entry("rmtree", by, ns, name, "OSError"))
          /\ Raise("rmtree")
    /\ hook' = -1
    /\ UNCHANGED <<arg, ret, upstream, mirror, cfg, diffs, ns, idx, start, changes>>

RemovePreSilent ==
    /\ pc = "rm_pre"
    /\ pc' = "rm_rmtree"
    /\ hook' = -1
    /\ UNCHANGED <<arg, ret, upstream, mirror, tree, cfg, diffs, ns, idx, log, hist,
                   start, todo, changes>>

RemovePre ==
    /\ pc = "rm_pre"
    /\ Emit("pre-remove", "_remove", rm_name, "rm_rmtree", idx)

RemoveRmtree ==
    /\ pc = "rm_rmtree"
    /\ Rmtree("_remove", rm_name, "rm_post")

RemovePost ==
    /\ pc = "rm_post"
    /\ Emit("post-remove", "_remove", rm_name, "rm_loop", idx + 1)

(***************************************************************************)
(* MirrorHub._add                                                          *)
(***************************************************************************)
add_name == AddNames(diffs[ns])[idx]

AddLoop ==
    /\ pc = "add_loop"
    /\ IF idx > Len(AddNames(diffs[ns]))
       THEN pc' = "return" /\ UNCHANGED idx
       ELSE IF ~name_valid(add_name)
            THEN pc' = "add_loop" /\ idx' = idx + 1
            ELSE pc' = "add_exists" /\ UNCHANGED idx
    /\ hook' = -1
    /\ UNCHANGED <<arg, ret, upstream, mirror, tree, cfg, diffs, ns, log, hist,
                   start, todo, changes>>

AddExistsIgnored ==
    /\ pc = "add_exists"
    /\ log' = Append(log, Entry("exists", "_add", ns, add_name, "returns"))
    /\ pc' = "add_pre"
    /\ hook' = -1
    /\ UNCHANGED <<arg, ret, upstream, mirror, tree, cfg, diffs, ns, idx, hist,
                   start, todo, changes>>

AddExists ==
    /\ pc = "add_exists"
    /\ log' = Append(log, Entry("exists", "_add", ns, add_name, "returns"))
    /\ IF add_name \in DOMAIN tree[ns]
       THEN pc' = "add_rmtree"
       ELSE pc' = "add_pre"
    /\ hook' = -1
    /\ UNCHANGED <<arg, ret, upstream, mirror, tree, cfg, diffs, ns, idx, hist,
                   start, todo, changes>>

AddRmtree ==
    /\ pc = "add_rmtree"
    /\ Rmtree("_add", add_name, "add_pre")

AddPre ==
    /\ pc = "add_pre"
    /\ Emit("pre-add", "_add", add_name, "add_clone", idx)

AddCloneIgnoringFailure ==
    /\ pc = "add_clone"
    /\ \/ /\ add_name \notin DOMAIN tree[ns]
          /\ CloneRevision(mirror[1], add_name) # None
          /\ tree' = [tree EXCEPT ![ns] = Put(@, add_name, CloneRevision(mirror[1], add_name)[1])]
          /\ log' = Append(log, Entry("clone", "_add", ns, add_name, "returns"))
       \/ /\ log' = Append(log, Entry("clone", "_add", ns, add_name, "GitCommandError"))
          /\ UNCHANGED tree
    /\ pc' = "add_post"
    /\ hook' = -1
    /\ UNCHANGED <<arg, ret, upstream, mirror, cfg, diffs, ns, idx, start, changes, hist, todo>>

\* git refuses to clone into a directory that exists and is not empty
AddClone ==
    /\ pc = "add_clone"
    /\ \/ /\ add_name \notin DOMAIN tree[ns]
          /\ CloneRevision(mirror[1], add_name) # None
          /\ tree' = [tree EXCEPT ![ns] = Put(@, add_name, CloneRevision(mirror[1], add_name)[1])]
          /\ log' = Append(log, Entry("clone", "_add", ns, add_name, "returns"))
          /\ pc' = "add_post"
          /\ UNCHANGED <<hist, todo>>
       \/ /\ log' = Append(log, Entry("clone", "_add", ns, add_name, "GitCommandError"))
          /\ Raise("clone")
          /\ UNCHANGED tree
    /\ hook' = -1
    /\ UNCHANGED <<arg, ret, upstream, mirror, cfg, diffs, ns, idx, start, changes>>

AddPost ==
    /\ pc = "add_post"
    /\ Emit("post-add", "_add", add_name, "add_loop", idx + 1)

Pass ==
    \/ ApplyDiff
    \/ RemoveLoop
    \/ RemoveExists
    \/ RemovePre
    \/ RemoveRmtree
    \/ RemovePost
    \/ AddLoop
    \/ AddExists
    \/ AddRmtree
    \/ AddPre
    \/ AddClone
    \/ AddPost
    \/ Return

(***************************************************************************)
(* MirrorHub.__init__, MirrorHub.sync and Repo.sync: one run.              *)
(***************************************************************************)
\* MirrorHub(path, remoteUrl, branchesConfig, tagsConfig) is called: a new process,
\* which has nothing of the run before but the mirror and the checkout trees
StartRun ==
    /\ pc \in {"idle", "done", "aborted"}
    /\ Len(hist) < MaxRuns
    /\ pc' = IF mirror = None THEN "clone_from" ELSE "sync"
    /\ log' = <<>>
    /\ diffs' = [n \in NS |-> EmptyDiff]
    /\ start' = tree
    /\ ns' = "branches"
    /\ idx' = 1
    /\ todo' = <<>>
    /\ hook' = -1
    /\ UNCHANGED <<arg, ret, upstream, mirror, tree, cfg, hist, changes>>

\* the first run: Repo.clone_from and the 'virtual' diffs
CloneFromTagsAsBranches ==
    /\ pc = "clone_from"
    /\ \/ /\ mirror' = <<upstream>>
          /\ \E b \in Lists(DOMAIN upstream.branches) :
                diffs' = [branches |-> [EmptyDiff EXCEPT !.added = b],
                          tags |-> [EmptyDiff EXCEPT !.added = b]]
          /\ pc' = "apply"
          /\ ns' = "branches"
          /\ todo' = <<"tags">>
          /\ UNCHANGED hist
       \/ /\ Raise("clone_from")
          /\ UNCHANGED <<mirror, diffs, ns>>
    /\ hook' = -1
    /\ UNCHANGED <<arg, ret, upstream, tree, cfg, idx, log, start, changes>>

CloneFrom ==
    /\ pc = "clone_from"
    /\ \/ /\ mirror' = <<upstream>>
          /\ \E b \in Lists(DOMAIN upstream.branches), t \in Lists(DOMAIN upstream.tags) :
                diffs' = [branches |-> [EmptyDiff EXCEPT !.added = b],
                          tags |-> [EmptyDiff EXCEPT !.added = t]]
          /\ pc' = "apply"
          /\ ns' = "branches"
          /\ todo' = <<"tags">>
          /\ UNCHANGED hist
       \/ /\ Raise("clone_from")
          /\ UNCHANGED <<mirror, diffs, ns>>
    /\ hook' = -1
    /\ UNCHANGED <<arg, ret, upstream, tree, cfg, idx, log, start, changes>>

\* a later run: Repo.sync, then the two _apply_diff calls of MirrorHub.sync
SyncDiffingFromNothing ==
    /\ pc = "sync"
    /\ \/ /\ mirror' = <<upstream>>
          /\ \E b \in get_diff(EmptyMap, upstream.branches),
                t \in get_diff(EmptyMap, upstream.tags) :
                diffs' = [branches |-> b, tags |-> t]
          /\ pc' = "apply"
          /\ ns' = "branches"
          /\ todo' = <<"tags">>
          /\ UNCHANGED hist
       \/ /\ Raise("fetch")
          /\ UNCHANGED <<mirror, diffs, ns>>
    /\ hook' = -1
    /\ UNCHANGED <<arg, ret, upstream, tree, cfg, idx, log, start, changes>>

SyncTagsFirst ==
    /\ pc = "sync"
    /\ \/ /\ mirror' = <<upstream>>
          /\ \E b \in get_diff(mirror[1].branches, upstream.branches),
                t \in get_diff(mirror[1].tags, upstream.tags) :
                diffs' = [branches |-> b, tags |-> t]
          /\ pc' = "apply"
          /\ ns' = "tags"
          /\ todo' = <<"branches">>
          /\ UNCHANGED hist
       \/ /\ Raise("fetch")
          /\ UNCHANGED <<mirror, diffs, ns>>
    /\ hook' = -1
    /\ UNCHANGED <<arg, ret, upstream, tree, cfg, idx, log, start, changes>>

Sync ==
    /\ pc = "sync"
    /\ \/ /\ mirror' = <<upstream>>
          /\ \E b \in get_diff(mirror[1].branches, upstream.branches),
                t \in get_diff(mirror[1].tags, upstream.tags) :
                diffs' = [branches |-> b, tags |-> t]
          /\ pc' = "apply"
          /\ ns' = "branches"
          /\ todo' = <<"tags">>
          /\ UNCHANGED hist
       \/ /\ Raise("fetch")
          /\ UNCHANGED <<mirror, diffs, ns>>
    /\ hook' = -1
    /\ UNCHANGED <<arg, ret, upstream, tree, cfg, idx, log, start, changes>>

\* the remote repository gets, moves or loses a ref before the run fetches from it
UpstreamRevs == {"abc", "def"}
ChangingRefs == {<<"branches", main>>, <<"branches", dev>>, <<"tags", main>>}

UpstreamChange ==
    /\ pc \in {"clone_from", "sync"}
    /\ changes < MaxChanges
    /\ changes' = changes + 1
    /\ \E ref \in ChangingRefs : LET n == ref[1]  name == ref[2] IN
          \/ \E r \in UpstreamRevs :
                /\ (name \in DOMAIN upstream[n] => upstream[n][name] # r)
                /\ upstream' = [upstream EXCEPT ![n] = Put(@, name, r)]
          \/ /\ name \in DOMAIN upstream[n]
             /\ upstream' = [upstream EXCEPT ![n] = Drop(@, name)]
    /\ hook' = -1
    /\ UNCHANGED <<arg, ret, mirror, tree, cfg, diffs, pc, ns, idx, log, hist,
                   start, todo>>

UpstreamInits ==
    {[branches |-> (main :> "abc"), tags |-> EmptyMap],
     [branches |-> (main :> "abc") @@ (slashed :> "abc"),
      tags |-> (main :> "def")]}

RunConfigs ==
    {[branches |-> <<[filters |-> DefaultFilters, eventCmd |-> <<"hook">>]>>,
      tags |-> <<[filters |-> DefaultFilters, eventCmd |-> None]>>],
     [branches |-> <<[filters |-> <<<<"m", "a">>>>, eventCmd |-> None]>>,
      tags |-> <<[filters |-> DefaultFilters, eventCmd |-> <<"hook">>]>>],
     [branches |-> None,
      tags |-> <<[filters |-> DefaultFilters, eventCmd |-> None]>>],
     [branches |-> <<[filters |-> DefaultFilters, eventCmd |-> None]>>,
      tags |-> None]}

Init ==
    /\ arg = None
    /\ ret = None
    /\ upstream \in UpstreamInits
    /\ mirror = None
    /\ tree = [n \in NS |-> EmptyMap]
    /\ cfg \in RunConfigs
    /\ diffs = [n \in NS |-> EmptyDiff]
    /\ pc = "idle"
    /\ ns = "branches"
    /\ idx = 1
    /\ log = <<>>
    /\ hook = -1
    /\ hist = <<>>
    /\ start = [n \in NS |-> EmptyMap]
    /\ todo = <<>>
    /\ changes = 0

Next ==
    \/ StartRun
    \/ CloneFrom
    \/ Sync
    \/ UpstreamChange
    \/ Pass

Spec == Init /\ [][Next]_vars

(***************************************************************************)
(* One call of _apply_diff on its own, from any checkout tree and with any *)
(* diff, and the same call once more.                                      *)
(***************************************************************************)
NameOrder == <<main, dev, slashed>>
Sorted(S) == SelectSeq(NameOrder, LAMBDA n : n \in S)
DistinctLists == UNION {Lists(S) : S \in SUBSET Names}

\* the diffs whose lists hold no name twice and that have no modified name in
\* another list; a name may be in removed and in added at once
ApplyDiffs ==
    {d \in [removed : DistinctLists, added : DistinctLists, modified : DistinctLists,
            unmodified : {Sorted(S) : S \in SUBSET Names}] :
        /\ Range(d.modified) \cap (Range(d.removed) \cup Range(d.added)) = {}
        /\ Range(d.unmodified)
             \cap (Range(d.removed) \cup Range(d.added) \cup Range(d.modified)) = {}}

ApplyMirrors(refType) ==
    IF refType = "branches"
    THEN {[branches |-> (main :> "def") @@ (dev :> "111") @@ (slashed :> "def"),
           tags |-> EmptyMap],
          [branches |-> (main :> "def"), tags |-> (dev :> "111")]}
    ELSE {[branches |-> (main :> "def"), tags |-> [n \in Names |-> "111"]],
          [branches |-> EmptyMap, tags |-> (main :> "111") @@ (slashed :> "111")]}

ApplyTrees == UNION {[S -> {"abc"}] : S \in SUBSET {main, dev}}

InitApply ==
    /\ arg = None
    /\ ret = None
    /\ upstream = [n \in NS |-> EmptyMap]
    /\ ns \in NS
    /\ \E m \in ApplyMirrors(ns) : mirror = <<m>>
    /\ \E t \in ApplyTrees : tree = [n \in NS |-> IF n = ns THEN t ELSE EmptyMap]
    /\ \E c \in TargetConfigs : cfg = [n \in NS |-> IF n = ns THEN <<c>> ELSE None]
    /\ \E d \in ApplyDiffs : diffs = [n \in NS |-> IF n = ns THEN d ELSE EmptyDiff]
    /\ pc = "apply"
    /\ idx = 1
    /\ log = <<>>
    /\ hook = -1
    /\ hist = <<>>
    /\ start = tree
    /\ todo = <<>>
    /\ changes = 0

ApplyAgain ==
    /\ pc = "done"
    /\ Len(hist) = 1
    /\ pc' = "apply"
    /\ log' = <<>>
    /\ hook' = -1
    /\ UNCHANGED <<arg, ret, upstream, mirror, tree, cfg, diffs, ns, idx, hist, start,
                   todo, changes>>

NextApply ==
    \/ Pass
    \/ ApplyAgain

SpecApply == InitApply /\ [][NextApply]_vars

(***************************************************************************)
(* Calls of the pure functions on their own.                               *)
(***************************************************************************)
NoRun ==
    /\ upstream = [n \in NS |-> EmptyMap]
    /\ mirror = None
    /\ tree = [n \in NS |-> EmptyMap]
    /\ cfg = [n \in NS |-> None]
    /\ diffs = [n \in NS |-> EmptyDiff]
    /\ pc = "idle"
    /\ ns = "branches"
    /\ idx = 1
    /\ log = <<>>
    /\ hook = -1
    /\ hist = <<>>
    /\ start = [n \in NS |-> EmptyMap]
    /\ todo = <<>>
    /\ changes = 0

run_vars == <<upstream, mirror, tree, cfg, diffs, pc, ns, idx, log, hook, hist, start,
              todo, changes>>

NameFilters == {DefaultFilters, <<<<"a", "b">>, <<"b", DotStar, "a">>>>, <<<<"a">>>>, <<>>}

InitName ==
    /\ arg \in {[filters |-> f, name |-> n] :
                    f \in NameFilters, n \in SeqsUpTo(Chars, MaxNameLen)}
    /\ ret = None
    /\ NoRun

CallIsValidName ==
    /\ ret = None
    /\ ret' = <<is_valid_name(arg.filters, arg.name)>>
    /\ UNCHANGED <<arg, run_vars>>

SpecName == InitName /\ [][CallIsValidName]_vars

InitDiff ==
    /\ arg \in {[before |-> b, after |-> a] : b \in RefMappings, a \in RefMappings}
    /\ ret = None
    /\ NoRun

CallGetDiff ==
    /\ ret = None
    /\ \E d \in get_diff(arg.before, arg.after) : ret' = <<d>>
    /\ UNCHANGED <<arg, run_vars>>

SpecDiff == InitDiff /\ [][CallGetDiff]_vars

(***************************************************************************)
(* What a pass did, read from the log.                                     *)
(***************************************************************************)
Configured == cfg[ns] # None
Last(l) == l[Len(l)]
IsPrefix(a, b) == Len(a) <= Len(b) /\ SubSeq(b, 1, Len(a)) = a
Did(op, name) == \E i \in 1..Len(log) : log[i].op = op /\ log[i].name = name /\ log[i].ns = ns
DidOk(op, name) ==
    \E i \in 1..Len(log) :
        log[i].op = op /\ log[i].name = name /\ log[i].ns = ns /\ log[i].res = "returns"
Same(e, op, by, res) == [e EXCEPT !.op = op, !.by = by, !.res = res]

(***************************************************************************)
(* C1. get_diff(before, after) puts every name of keys(before) \cup        *)
(* keys(after) in exactly one of its four lists, once, and no other name   *)
(* in any: removed is the names only in before, added the names only in    *)
(* after, modified the names in both whose revisions differ, unmodified    *)
(* the names in both whose revisions are equal.                            *)
(***************************************************************************)
Thm_C1_get_diff_partitions ==
    ret # None =>
        LET d == ret[1]
            b == arg.before
            a == arg.after
            all == DOMAIN b \cup DOMAIN a
            Count(n, l) == Cardinality({i \in 1..Len(l) : l[i] = n})
        IN  /\ Range(d.removed) = {n \in all : n \in DOMAIN b /\ n \notin DOMAIN a}
            /\ Range(d.added) = {n \in all : n \in DOMAIN a /\ n \notin DOMAIN b}
            /\ Range(d.modified) = {n \in all : n \in DOMAIN b /\ n \in DOMAIN a /\ b[n] # a[n]}
            /\ Range(d.unmodified) = {n \in all : n \in DOMAIN b /\ n \in DOMAIN a /\ b[n] = a[n]}
            /\ \A n \in all :
                  Count(n, d.removed) + Count(n, d.added)
                    + Count(n, d.modified) + Count(n, d.unmodified) = 1
            /\ \A n \in Names \ all :
                  Count(n, d.removed) + Count(n, d.added)
                    + Count(n, d.modified) + Count(n, d.unmodified) = 0

Wit_C1_three_buckets ==
    /\ ret # None
    /\ ret[1].removed # <<>>
    /\ ret[1].added # <<>>
    /\ ret[1].modified # <<>>

(***************************************************************************)
(* C2. In a pass of _apply_diff every deletion of the directory of a name  *)
(* in removed or modified is over before the first clone begins; no valid  *)
(* modified name keeps its old directory while a directory cloned by this  *)
(* pass exists; between the two phases no valid name of removed or         *)
(* modified has a directory; and after a pass with a name both in removed  *)
(* and in added, that name has a directory cloned by this pass.            *)
(***************************************************************************)
Thm_C2_removals_before_additions ==
    Configured =>
        LET d == diffs[ns]
            gone == Range(d.removed) \cup Range(d.modified)
        IN  /\ \A i, j \in 1..Len(log) :
                  (i < j /\ log[i].op = "clone" /\ log[j].op = "rmtree")
                      => log[j].name \notin gone
            /\ ~ \E m \in Range(d.modified), c \in Names :
                  /\ name_valid(m) /\ m \in DOMAIN tree[ns] /\ ~DidOk("clone", m)
                  /\ DidOk("clone", c)
            /\ (pc = "add_loop" /\ idx = 1) =>
                  \A x \in gone : name_valid(x) => x \notin DOMAIN tree[ns]
            /\ pc = "done" =>
                  \A x \in Range(d.removed) \cap Range(d.added) :
                      name_valid(x) =>
                          /\ x \in DOMAIN tree[ns]
                          /\ DidOk("clone", x)
                          /\ <<tree[ns][x]>> = CloneRevision(mirror[1], x)

Wit_C2_removed_and_added ==
    /\ pc = "done"
    /\ Len(hist) = 1
    /\ diffs[ns].removed = <<main>>
    /\ diffs[ns].added = <<dev, main>>
    /\ main \in DOMAIN start[ns]
    /\ DidOk("rmtree", main)
    /\ DidOk("clone", main)
    /\ DidOk("clone", dev)

(***************************************************************************)
(* C3. After a run that was aborted by a failing clone or deletion, the    *)
(* next run that ends without failure leaves the checkout trees matching   *)
(* the mirror: every valid ref of the mirror has a checkout at its         *)
(* revision, and no ref absent from the mirror has a checkout.             *)
(***************************************************************************)
ValidIn(refType, name) ==
    cfg[refType] # None /\ is_valid_name(cfg[refType][1].filters, name).ok

TreeMatchesMirror ==
    \A n \in NS : cfg[n] # None =>
        /\ \A name \in DOMAIN mirror[1][n] :
              ValidIn(n, name) => name \in DOMAIN tree[n] /\ tree[n][name] = mirror[1][n][name]
        /\ \A name \in DOMAIN tree[n] : name \in DOMAIN mirror[1][n]

\* C3: a run that completes right after an aborted run leaves the checkout
\* tree equal to the valid refs of the mirror.
Cex_C3_next_run_self_corrects ==
    (/\ pc = "done"
     /\ Len(hist) >= 2
     /\ hist[Len(hist)] = "ok"
     /\ hist[Len(hist) - 1] \in {"clone", "rmtree"}
     /\ DOMAIN mirror[1].branches \cap DOMAIN mirror[1].tags = {})
        => TreeMatchesMirror

(***************************************************************************)
(* C4. is_valid_name(name) is False exactly when no configured pattern     *)
(* matches a prefix of name, or name begins with '.', or name contains one *)
(* of '/', NUL, newline, tab. As amended: ... or one of '/', '$', NUL,     *)
(* newline, tab.                                                           *)
(***************************************************************************)
\* pat matches the whole of s
RECURSIVE ReMatchFull(_, _)
ReMatchFull(pat, s) ==
    IF pat = <<>> THEN s = <<>>
    ELSE IF Head(pat) = DotStar
         THEN \E k \in 0..Len(s) :
                 /\ \A j \in 1..k : s[j] # "\n"
                 /\ ReMatchFull(Tail(pat), SubSeq(s, k + 1, Len(s)))
         ELSE s # <<>> /\ Head(s) = Head(pat) /\ ReMatchFull(Tail(pat), Tail(s))

MatchesAPrefix(filters, name) ==
    \E f \in 1..Len(filters) : \E k \in 0..Len(name) :
        ReMatchFull(filters[f], SubSeq(name, 1, k))

BeginsWithDot(name) == Len(name) >= 1 /\ name[1] = "."

NameInstances ==
    /\ is_valid_name(DefaultFilters, main).ok
    /\ ~is_valid_name(DefaultFilters, <<".", "h", "i", "d", "d", "e", "n">>).ok
    /\ ~is_valid_name(DefaultFilters, <<"a", "/", "b">>).ok
    /\ ~is_valid_name(DefaultFilters, <<"a", "\t", "b">>).ok
    /\ ~is_valid_name(<<<<"m", "a">>>>, dev).ok

\* C4, as stated: is_valid_name returns False exactly when no filter matches
\* a prefix of the name, or the name begins with '.', or it contains one of
\* '/', NUL, newline, tab.
Cex_C4_rejects_only_slash_nul_newline_tab ==
    ret # None =>
        (~ret[1].ok <=>
            \/ ~MatchesAPrefix(arg.filters, arg.name)
            \/ BeginsWithDot(arg.name)
            \/ Range(arg.name) \cap {"/", NUL, "\n", "\t"} # {})

\* C4, amended: the same equivalence with '$' among the rejected characters.
Thm_C4_rejects_also_dollar ==
    /\ NameInstances
    /\ ret # None =>
        (~ret[1].ok <=>
            \/ ~MatchesAPrefix(arg.filters, arg.name)
            \/ BeginsWithDot(arg.name)
            \/ Range(arg.name) \cap {"/", "$", NUL, "\n", "\t"} # {})

Wit_C4_dollar_rejected ==
    /\ ret # None
    /\ ~ret[1].ok
    /\ arg.name = <<"a", "$", "b">>
    /\ arg.filters = <<<<"a">>>>

(***************************************************************************)
(* C5. Every deletion of a checkout directory, in _remove and in _add, is  *)
(* preceded by pre-remove and followed by post-remove for its name, and    *)
(* every clone is preceded by pre-add and followed by post-add. As         *)
(* amended: this holds of the deletions in _remove and of the clones; the  *)
(* deletion in _add of a directory that should not be there is announced   *)
(* by no remove event: it comes right after the existence test and right   *)
(* before pre-add.                                                         *)
(***************************************************************************)
Announced(i, pre, post) ==
    /\ i > 1 /\ log[i - 1].op = pre /\ log[i - 1].name = log[i].name
    /\ (log[i].res = "returns" /\ i < Len(log)) =>
          log[i + 1].op = post /\ log[i + 1].name = log[i].name

\* C5, as stated: every rmtree is bracketed by pre-remove / post-remove and
\* every clone by pre-add / post-add.
Cex_C5_every_deletion_announced ==
    \A i \in 1..Len(log) :
        /\ log[i].op = "rmtree" => Announced(i, "pre-remove", "post-remove")
        /\ log[i].op = "clone" => Announced(i, "pre-add", "post-add")

\* C5, amended: the rmtree calls of _remove and all clones are bracketed by
\* their events; the rmtree of _add comes right after the existence test and
\* right before pre-add, with no remove event.
Thm_C5_deletions_of_remove_announced ==
    \A i \in 1..Len(log) :
        /\ (log[i].op = "rmtree" /\ log[i].by = "_remove")
              => Announced(i, "pre-remove", "post-remove")
        /\ log[i].op = "clone" => Announced(i, "pre-add", "post-add")
        /\ (log[i].op = "rmtree" /\ log[i].by = "_add") => Announced(i, "exists", "pre-add")
        /\ (log[i].op \in {"rmtree", "clone"} /\ log[i].res = "returns" /\ i = Len(log))
              => pc \in {"rm_post", "add_post", "add_pre"}

Wit_C5_deletion_in_add ==
    /\ pc = "done"
    /\ \E i \in 1..Len(log) :
          /\ log[i].op = "rmtree" /\ log[i].by = "_add" /\ log[i].res = "returns"
          /\ log[i + 1].op = "pre-add"
    /\ \E i \in 1..Len(log) :
          /\ log[i].op = "rmtree" /\ log[i].by = "_remove" /\ log[i].res = "returns"
          /\ log[i + 1].op = "post-remove"

(***************************************************************************)
(* C6. pre-remove(name) is emitted before the deletion of name's directory *)
(* begins and post-remove(name) only after it succeeded; pre-add(name)     *)
(* before the clone begins and post-add(name) only after it succeeded. A   *)
(* failed deletion or clone ends the pass, so no post event follows it,    *)
(* and every post event comes right after its one mutation, which comes    *)
(* right after the pre event of the same kind and name.                    *)
(***************************************************************************)
Thm_C6_pre_before_post_after ==
    /\ \A i \in 1..Len(log) :
          LET e == log[i]
          IN  /\ (e.op = "rmtree" /\ e.by = "_remove") =>
                    i > 1 /\ log[i - 1] = Same(e, "pre-remove", "_remove", "returns")
              /\ e.op = "clone" =>
                    i > 1 /\ log[i - 1] = Same(e, "pre-add", "_add", "returns")
              /\ e.op = "post-remove" =>
                    /\ i > 2
                    /\ log[i - 1] = Same(e, "rmtree", "_remove", "returns")
                    /\ log[i - 2] = Same(e, "pre-remove", "_remove", "returns")
              /\ e.op = "post-add" =>
                    /\ i > 2
                    /\ log[i - 1] = Same(e, "clone", "_add", "returns")
                    /\ log[i - 2] = Same(e, "pre-add", "_add", "returns")
              /\ (e.op \in {"rmtree", "clone"} /\ e.res # "returns") =>
                    i = Len(log) /\ pc = "aborted"
    /\ pc = "rm_rmtree" => rm_name \in DOMAIN tree[ns] /\ Last(log).op = "pre-remove"
    /\ pc = "rm_post" => rm_name \notin DOMAIN tree[ns]
    /\ pc = "add_clone" => add_name \notin DOMAIN tree[ns] /\ Last(log).op = "pre-add"
    /\ pc = "add_post" => add_name \in DOMAIN tree[ns]

Wit_C6_failed_clone_no_post ==
    /\ pc = "aborted"
    /\ Last(log).op = "clone"
    /\ Last(log).res = "GitCommandError"
    /\ \E i \in 1..Len(log) : log[i].op = "post-remove"
    /\ \E i \in 1..Len(log) : log[i].op = "post-add"

(***************************************************************************)
(* C7. After a successful pass with nothing removed, modified = M and      *)
(* added = A, all names valid, a directory for every name of M and for no  *)
(* name of A, the events are: pre-remove(m), post-remove(m) for each m of  *)
(* M, then pre-add(m), post-add(m) for each m of M, then pre-add(a),       *)
(* post-add(a) for each a of A.                                            *)
(***************************************************************************)
EventsOf(l) ==
    LET ev == SelectSeq(l, LAMBDA e : e.op \in Events)
    IN  [i \in 1..Len(ev) |-> <<ev[i].op, ev[i].name>>]

ExpectedEvents(M, A) ==
    [i \in 1..(4 * Len(M) + 2 * Len(A)) |->
        IF i <= 2 * Len(M)
        THEN <<IF i % 2 = 1 THEN "pre-remove" ELSE "post-remove", M[(i + 1) \div 2]>>
        ELSE IF i <= 4 * Len(M)
             THEN <<IF i % 2 = 1 THEN "pre-add" ELSE "post-add", M[(i - 2 * Len(M) + 1) \div 2]>>
             ELSE <<IF i % 2 = 1 THEN "pre-add" ELSE "post-add",
                    A[(i - 4 * Len(M) + 1) \div 2]>>]

\* C7: a completed pass with removed empty emits exactly pre-remove,
\* post-remove per existing modified name, then pre-add, post-add per modified
\* name, then pre-add, post-add per added name, in list order.
Thm_C7_event_order ==
    (/\ pc = "done"
     /\ Configured
     /\ diffs[ns].removed = <<>>
     /\ \A n \in Range(diffs[ns].modified) : name_valid(n) /\ n \in DOMAIN start[ns]
     /\ \A n \in Range(diffs[ns].added) : name_valid(n) /\ n \notin DOMAIN start[ns])
        => EventsOf(log) = ExpectedEvents(diffs[ns].modified, diffs[ns].added)

Wit_C7_main_modified_dev_added ==
    /\ pc = "done"
    /\ ns = "branches"
    /\ diffs[ns] = [EmptyDiff EXCEPT !.modified = <<main>>, !.added = <<dev>>]
    /\ start[ns] = (main :> "abc")
    /\ tree[ns] = (main :> "def") @@ (dev :> "111")
    /\ EventsOf(log) = <<<<"pre-remove", main>>, <<"post-remove", main>>,
                         <<"pre-add", main>>, <<"post-add", main>>,
                         <<"pre-add", dev>>, <<"post-add", dev>>>>

(***************************************************************************)
(* C8. For a name that fails validation the pass makes no filesystem call  *)
(* at its path and no emit call, in _remove and in _add; its directory, if *)
(* any, stays as it was; the rejection raises nothing, and the pass goes   *)
(* on to the remaining names.                                              *)
(***************************************************************************)
Thm_C8_invalid_names_untouched ==
    Configured =>
        /\ \A i \in 1..Len(log) : name_valid(log[i].name)
        /\ \A n \in Names : ~name_valid(n) =>
              /\ n \in DOMAIN tree[ns] <=> n \in DOMAIN start[ns]
              /\ n \in DOMAIN tree[ns] => tree[ns][n] = start[ns][n]
        /\ pc = "aborted" => log # <<>> /\ Last(log).res # "returns"
        /\ pc = "done" =>
              /\ \A n \in Range(RemoveNames(diffs[ns])) : name_valid(n) => Did("exists", n)
              /\ \A n \in Range(AddNames(diffs[ns])) : name_valid(n) => DidOk("clone", n)

Wit_C8_invalid_then_valid ==
    /\ pc = "done"
    /\ diffs[ns].removed = <<slashed, dev>>
    /\ diffs[ns].added = <<slashed, main>>
    /\ config.filters = DefaultFilters
    /\ DidOk("rmtree", dev)
    /\ DidOk("clone", main)

(***************************************************************************)
(* C9. Applying the same diff once more, the mirror unchanged, raises no   *)
(* error of its own (every clone it comes to finds no directory in its way *)
(* and a ref to clone), and leaves the checkout tree as the first          *)
(* application left it.                                                    *)
(***************************************************************************)
InSecondApplication == Len(hist) >= 1 /\ hist[1] = "ok" /\ ~(pc = "done" /\ Len(hist) = 1)

\* C9: the second application of a diff raises no error of its own and, when
\* it completes, leaves the tree as the first application left it.
Thm_C9_second_application_same_tree ==
    InSecondApplication =>
        /\ pc = "add_clone" =>
              add_name \notin DOMAIN tree[ns] /\ CloneRevision(mirror[1], add_name) # None
        /\ pc = "aborted" => log # <<>> /\ Last(log).res # "returns"
        /\ pc = "done" => tree = start

Wit_C9_added_twice ==
    /\ pc = "done"
    /\ Len(hist) = 2
    /\ diffs[ns] = [EmptyDiff EXCEPT !.added = <<main>>]
    /\ tree[ns] = start[ns]
    /\ main \in DOMAIN tree[ns]
    /\ \E i \in 1..Len(log) : log[i] = Entry("rmtree", "_add", ns, main, "returns")

(***************************************************************************)
(* C10. The event command has no influence on the pass: the filesystem     *)
(* mutations of the pass and its final tree are those that the diff, the   *)
(* filters, the mirror and the tree at the start give, whether no command  *)
(* is configured or the command exits with zero or with another status; an *)
(* exit status never ends the pass and never takes away a later event.     *)
(***************************************************************************)
RECURSIVE ExpectedRemoves(_, _)
ExpectedRemoves(names, present) ==
    IF names = <<>> THEN <<>>
    ELSE IF name_valid(Head(names)) /\ Head(names) \in present
         THEN <<[op |-> "rmtree", by |-> "_remove", name |-> Head(names)]>>
                 \o ExpectedRemoves(Tail(names), present \ {Head(names)})
         ELSE ExpectedRemoves(Tail(names), present)

RECURSIVE ExpectedAdds(_, _)
ExpectedAdds(names, present) ==
    IF names = <<>> THEN <<>>
    ELSE IF name_valid(Head(names))
         THEN (IF Head(names) \in present
               THEN <<[op |-> "rmtree", by |-> "_add", name |-> Head(names)]>>
               ELSE <<>>)
                 \o <<[op |-> "clone", by |-> "_add", name |-> Head(names)]>>
                 \o ExpectedAdds(Tail(names), present \cup {Head(names)})
         ELSE ExpectedAdds(Tail(names), present)

ExpectedMutations ==
    LET rm == ExpectedRemoves(diffs[ns].removed \o diffs[ns].modified, DOMAIN start[ns])
        left == DOMAIN start[ns] \ {rm[i].name : i \in 1..Len(rm)}
    IN  rm \o ExpectedAdds(diffs[ns].modified \o diffs[ns].added, left)

ExpectedTree ==
    LET mut == ExpectedMutations
        cloned == {mut[i].name : i \in {j \in 1..Len(mut) : mut[j].op = "clone"}}
        deleted == {mut[i].name : i \in {j \in 1..Len(mut) : mut[j].op = "rmtree"}}
    IN  [n \in (DOMAIN start[ns] \ deleted) \cup cloned |->
            IF n \in cloned THEN CloneRevision(mirror[1], n)[1] ELSE start[ns][n]]

MutationsOf(l) ==
    LET mu == SelectSeq(l, LAMBDA e : e.op \in {"rmtree", "clone"})
    IN  [i \in 1..Len(mu) |-> [op |-> mu[i].op, by |-> mu[i].by, name |-> mu[i].name]]

\* C10: the mutations of a pass and its final tree are those determined by
\* the diff, the filters, the mirror and the start tree; a hook that returned
\* any status never aborts the pass.
Thm_C10_hook_without_influence ==
    Configured =>
        /\ IsPrefix(MutationsOf(log), ExpectedMutations)
        /\ hook # -1 => pc # "aborted"
        /\ pc = "done" =>
              /\ MutationsOf(log) = ExpectedMutations
              /\ tree[ns] = ExpectedTree
              /\ Len(EventsOf(log))
                    = 2 * Cardinality({i \in 1..Len(log) :
                            log[i].op = "clone" \/ (log[i].op = "rmtree" /\ log[i].by = "_remove")})

Wit_C10_nonzero_status_pass_goes_on ==
    /\ hook = 1
    /\ pc = "add_loop"
    /\ config.eventCmd # None
    /\ DidOk("rmtree", main)
    /\ DidOk("clone", main)
    /\ Last(log).op = "post-add"

(***************************************************************************)
(* The runs of MirrorHub, read from hist and pc.                           *)
(***************************************************************************)
Running == pc \notin {"idle", "done", "aborted"}
Ended == pc \in {"done", "aborted"}
\* the outcomes of the runs before the one in progress or just ended
Earlier == IF Ended THEN SubSeq(hist, 1, Len(hist) - 1) ELSE hist
\* the run in progress or just ended found no mirror at the path
FirstRun == pc # "idle" /\ \A i \in 1..Len(Earlier) : Earlier[i] = "clone_from"
\* ... and its Repo.clone_from returned
Cloned == pc \notin {"idle", "clone_from", "sync"} /\ ~(pc = "aborted" /\ Last(hist) = "clone_from")
ValidNames(refType) == {name \in DOMAIN mirror[1][refType] : ValidIn(refType, name)}
LogOf(refType) == SelectSeq(log, LAMBDA e : e.ns = refType)

(***************************************************************************)
(* C11. The first run clones the mirror and applies, once per namespace, a *)
(* diff whose added list is every branch (every tag) of the mirror, once,  *)
(* and whose other lists are empty; the tree being empty before, a first   *)
(* run that completes leaves as checkout directories exactly the valid     *)
(* branch names and the valid tag names of the mirror, and emits no        *)
(* pre-remove or post-remove.                                              *)
(***************************************************************************)
Thm_C11_first_run_adds_every_ref ==
    (FirstRun /\ Cloned) =>
        /\ mirror # None
        /\ \A n \in NS :
              /\ diffs[n].removed = <<>>
              /\ diffs[n].modified = <<>>
              /\ diffs[n].unmodified = <<>>
              /\ Range(diffs[n].added) = DOMAIN mirror[1][n]
              /\ Len(diffs[n].added) = Cardinality(DOMAIN mirror[1][n])
        /\ Running => (ns = "branches" /\ todo = <<"tags">>) \/ (ns = "tags" /\ todo = <<>>)
        /\ \A i \in 1..Len(log) : log[i].op \notin {"pre-remove", "post-remove", "rmtree"}
        /\ \A i, j \in 1..Len(log) : (log[i].ns = "tags" /\ log[j].ns = "branches") => i > j
        /\ pc = "done" => \A n \in NS : DOMAIN tree[n] = ValidNames(n)

Wit_C11_first_run_done ==
    /\ FirstRun
    /\ pc = "done"
    /\ DOMAIN mirror[1].branches = {main, slashed}
    /\ DOMAIN mirror[1].tags = {main}
    /\ DOMAIN tree.branches = {main}
    /\ DOMAIN tree.tags = {main}
    /\ \E i \in 1..Len(log) : log[i].op = "post-add" /\ log[i].ns = "tags"

(***************************************************************************)
(* C12. A namespace without a config gets no filesystem call and no event  *)
(* in a run, and the other namespace is reconciled as with both configs:   *)
(* its pass is run, and its filesystem mutations, its events and the tree  *)
(* it leaves are those that its own diff, its own config, the mirror and   *)
(* its tree at the start of the pass give.                                 *)
(***************************************************************************)
RECURSIVE EventsFor(_)
EventsFor(mut) ==
    IF mut = <<>> THEN <<>>
    ELSE LET m == Head(mut)
         IN  (IF m.op = "clone"
              THEN <<<<"pre-add", m.name>>, <<"post-add", m.name>>>>
              ELSE IF m.by = "_remove"
                   THEN <<<<"pre-remove", m.name>>, <<"post-remove", m.name>>>>
                   ELSE <<>>)
                \o EventsFor(Tail(mut))

\* C12: a namespace without a config gets no call and no event; the other is
\* reconciled as its own diff, config, start tree and the mirror determine.
Thm_C12_absent_config_skips_namespace ==
    /\ \A n \in NS : cfg[n] = None => LogOf(n) = <<>> /\ tree[n] = start[n]
    /\ (pc = "return" /\ ns = "branches") => todo = <<"tags">>
    /\ (pc = "return" /\ Configured) =>
          /\ MutationsOf(LogOf(ns)) = ExpectedMutations
          /\ EventsOf(LogOf(ns)) = EventsFor(ExpectedMutations)
          /\ tree[ns] = ExpectedTree

Wit_C12_tags_without_branches ==
    /\ pc = "done"
    /\ cfg.branches = None
    /\ DOMAIN mirror[1].branches = {main, slashed}
    /\ tree.branches = EmptyMap
    /\ DOMAIN tree.tags = {main}
    /\ EventsOf(log) = <<<<"pre-add", main>>, <<"post-add", main>>>>

(***************************************************************************)
(* C13. A pass of _apply_diff leaves every name of the unmodified list     *)
(* untouched: in every state of the pass the name has a directory exactly  *)
(* if it had one when the pass began, with the same content, and the pass  *)
(* makes no filesystem call and emits no event for the name.               *)
(***************************************************************************)
Thm_C13_unmodified_untouched ==
    Configured =>
        \A n \in Range(diffs[ns].unmodified) :
            /\ n \in DOMAIN tree[ns] <=> n \in DOMAIN start[ns]
            /\ n \in DOMAIN tree[ns] => tree[ns][n] = start[ns][n]
            /\ \A i \in 1..Len(log) : log[i].name # n

Wit_C13_unmodified_beside_modified ==
    /\ pc = "done"
    /\ Len(hist) = 1
    /\ diffs[ns].unmodified = <<main>>
    /\ diffs[ns].modified = <<dev>>
    /\ name_valid(main)
    /\ start[ns] = (main :> "abc") @@ (dev :> "abc")
    /\ tree[ns] = (main :> "abc") @@ (dev :> "111")
    /\ DidOk("rmtree", dev)
    /\ DidOk("clone", dev)

(***************************************************************************)
(* C14. get_diff(M, M) has removed, added and modified empty and           *)
(* unmodified the keys of M; get_diff({}, M) has added the keys of M and   *)
(* the other three empty; get_diff(M, {}) has removed the keys of M and    *)
(* the other three empty. A list is the keys of M when it holds each key   *)
(* once and nothing else.                                                  *)
(***************************************************************************)
IsKeys(l, M) == Range(l) = DOMAIN M /\ Len(l) = Cardinality(DOMAIN M)

\* C14: get_diff(M, M), get_diff({}, M) and get_diff(M, {}) put the keys of M
\* in unmodified, added and removed respectively, and leave the other lists empty.
Thm_C14_get_diff_special_cases ==
    ret # None =>
        LET d == ret[1]
        IN  /\ arg.before = arg.after =>
                  /\ d.removed = <<>> /\ d.added = <<>> /\ d.modified = <<>>
                  /\ IsKeys(d.unmodified, arg.before)
            /\ arg.before = EmptyMap =>
                  /\ d.removed = <<>> /\ d.modified = <<>> /\ d.unmodified = <<>>
                  /\ IsKeys(d.added, arg.after)
            /\ arg.after = EmptyMap =>
                  /\ d.added = <<>> /\ d.modified = <<>> /\ d.unmodified = <<>>
                  /\ IsKeys(d.removed, arg.before)

Wit_C14_same_mapping_twice ==
    /\ ret # None
    /\ arg.before = arg.after
    /\ DOMAIN arg.before = Names
    /\ Len(ret[1].unmodified) = 3
    /\ ret[1].unmodified[1] = slashed

(***************************************************************************)
(* C15. After a pass that completes, every valid name of modified and of   *)
(* added has a directory that holds the mirror's current revision of that  *)
(* ref of the namespace; the directory of a modified name was deleted and  *)
(* cloned anew; and no valid name of removed has a directory. The diff is  *)
(* one that get_diff or the first run gives for the mirror: no name in two *)
(* lists, and the names of modified and added are refs of the namespace.   *)
(***************************************************************************)
DiffOfMirror ==
    LET d == diffs[ns]
    IN  /\ Range(d.removed) \cap Range(d.added) = {}
        /\ Range(d.modified) \cap (Range(d.removed) \cup Range(d.added)) = {}
        /\ (Range(d.modified) \cup Range(d.added)) \subseteq DOMAIN mirror[1][ns]

ClonedAnew(n) ==
    \E j \in 1..Len(log) :
        /\ log[j] = Entry("clone", "_add", ns, n, "returns")
        /\ n \in DOMAIN start[ns] =>
              \E i \in 1..(j - 1) :
                  log[i].op = "rmtree" /\ log[i].name = n /\ log[i].res = "returns"

PostState ==
    LET d == diffs[ns]
    IN  /\ \A n \in Range(d.modified) \cup Range(d.added) :
              name_valid(n) =>
                  /\ n \in DOMAIN tree[ns]
                  /\ tree[ns][n] = mirror[1][ns][n]
                  /\ ClonedAnew(n)
        /\ \A n \in Range(d.removed) : name_valid(n) => n \notin DOMAIN tree[ns]

\* C15: a completed pass leaves each valid modified or added name with a
\* directory at the mirror's revision of that ref, cloned anew, and each valid
\* removed name without a directory.
Cex_C15_checkout_holds_revision_of_ref ==
    (pc = "done" /\ Configured /\ DiffOfMirror) => PostState

\* the same, for the refs whose name no ref of the other namespace bears
PostStateUnlessShadowed ==
    (/\ pc = "done" /\ Configured /\ DiffOfMirror
     /\ DOMAIN mirror[1].branches \cap DOMAIN mirror[1].tags = {}) => PostState

(***************************************************************************)
(* C16. In the removal phase a valid name of removed or modified that has  *)
(* no directory gets the existence test and nothing else: no deletion, no  *)
(* pre-remove, no post-remove, no error; the loop goes on to the next name *)
(* and the pass to the addition phase. No name being twice in removed +    *)
(* modified, the directory is absent at the test exactly if it was absent  *)
(* when the pass began.                                                    *)
(***************************************************************************)
AbsentAtRemoval ==
    {n \in Range(RemoveNames(diffs[ns])) : name_valid(n) /\ n \notin DOMAIN start[ns]}

\* C16: for a valid name of removed + modified without a directory, _remove
\* makes the existence test only and goes on to the next name.
Thm_C16_removal_of_absent_directory ==
    (Configured /\ pc # "apply") =>
        LET absent == AbsentAtRemoval
        IN  /\ \A i \in 1..Len(log) :
                  (log[i].by = "_remove" /\ log[i].name \in absent) =>
                      /\ log[i] = Entry("exists", "_remove", ns, log[i].name, "returns")
                      /\ i = Len(log) =>
                            pc \in {"rm_loop", "rm_exists", "add_loop", "add_exists",
                                    "return", "done"}
                      /\ (i = Len(log) /\ pc \in {"rm_loop", "rm_exists"}) =>
                            \E k \in 1..(idx - 1) : RemoveNames(diffs[ns])[k] = log[i].name
            /\ pc \in {"rm_loop", "rm_exists", "rm_pre", "rm_rmtree", "rm_post"} =>
                  absent \cap DOMAIN tree[ns] = {}
            /\ pc \in {"add_loop", "add_exists", "add_rmtree", "add_pre", "add_clone",
                       "add_post", "return", "done"} =>
                  \A n \in absent : Did("exists", n)

Wit_C16_absent_then_present ==
    /\ pc = "done"
    /\ Len(hist) = 1
    /\ diffs[ns].removed = <<dev>>
    /\ diffs[ns].modified = <<main>>
    /\ start[ns] = (main :> "abc")
    /\ name_valid(dev)
    /\ Len(log) >= 5
    /\ log[1] = Entry("exists", "_remove", ns, dev, "returns")
    /\ log[2] = Entry("exists", "_remove", ns, main, "returns")
    /\ log[3].op = "pre-remove"
    /\ log[4] = Entry("rmtree", "_remove", ns, main, "returns")

(***************************************************************************)
(* C17. A sync whose fetch finds the upstream refs as the mirror has them  *)
(* returns, for both namespaces, removed, added and modified empty and     *)
(* unmodified the names of all refs, and leaves the mirror as it was; a    *)
(* run with such diffs makes no filesystem call and emits no event, and    *)
(* the checkout trees stay as they were; and the mirror's refs change only *)
(* in the step of Repo.sync or of Repo.clone_from, to the upstream refs.   *)
(***************************************************************************)
NothingToApply ==
    \A n \in NS : diffs[n].removed = <<>> /\ diffs[n].added = <<>> /\ diffs[n].modified = <<>>

FetchOfUnchanged == pc = "sync" /\ pc' = "apply" /\ mirror[1] = upstream

\* C17: a sync of unchanged upstream refs gives diffs with only unmodified
\* names, the run then touches nothing, and only the fetch and the initial
\* clone change the mirror's refs.
Thm_C17_repeated_sync ==
    /\ [][FetchOfUnchanged =>
             /\ mirror' = mirror
             /\ NothingToApply'
             /\ \A n \in NS : IsKeys(diffs'[n].unmodified, mirror[1][n])]_vars
    /\ [][mirror' # mirror => (pc \in {"clone_from", "sync"} /\ mirror' = <<upstream>>)]_vars
    /\ [](NothingToApply => log = <<>> /\ tree = start)

Wit_C17_second_run_unchanged ==
    /\ pc = "done"
    /\ hist = <<"ok", "ok">>
    /\ changes = 0
    /\ NothingToApply
    /\ diffs.branches.unmodified = <<slashed, main>>
    /\ diffs.tags.unmodified = <<main>>
    /\ DOMAIN tree.branches = {main}
    /\ log = <<>>

(***************************************************************************)
(* C18. When is_valid_name rejects a name that a pattern matches, for a    *)
(* leading '.' or a contained '/', NUL, newline or tab, it returns False   *)
(* and prints one diagnostic, which shows the name and the one character   *)
(* that caused the rejection; when it rejects a name that no pattern       *)
(* matches it prints nothing.                                              *)
(***************************************************************************)
Unsafe(name) == BeginsWithDot(name) \/ Range(name) \cap {"/", NUL, "\n", "\t"} # {}

Diagnosed == ret # None /\ ret[1].diag # <<>>

\* C18: the diagnostic of a rejection for unsafe characters shows the name and
\* a single character, an unsafe one of the name; a rejection by the patterns
\* prints nothing.
Cex_C18_diagnostic_names_offending_character ==
    ret # None =>
        /\ (FiltersMatch(arg.filters, arg.name) /\ Unsafe(arg.name)) =>
              /\ ~ret[1].ok
              /\ Len(ret[1].diag) = 1
              /\ ret[1].diag[1].name = arg.name
              /\ Len(ret[1].diag[1].contains) = 1
              /\ ret[1].diag[1].contains[1] \in Range(arg.name) \cap {".", "/", NUL, "\n", "\t"}
        /\ ~FiltersMatch(arg.filters, arg.name) => ~ret[1].ok /\ ret[1].diag = <<>>

\* what the diagnostic does show: the part of the name that the regular
\* expression matched, which is the leading '.' or else ends with a character
\* of the class; and the patterns alone never give a diagnostic
DiagnosticShowsMatchedText ==
    ret # None =>
        /\ (FiltersMatch(arg.filters, arg.name) /\ Unsafe(arg.name)) =>
              /\ ~ret[1].ok
              /\ Len(ret[1].diag) = 1
              /\ ret[1].diag[1].name = arg.name
              /\ LET text == ret[1].diag[1].contains
                 IN  /\ \E i \in 1..Len(arg.name) :
                           text = SubSeq(arg.name, i, i + Len(text) - 1)
                     /\ text = <<".">> \/ Last(text) \in NastyClass
        /\ ~FiltersMatch(arg.filters, arg.name) => ~ret[1].ok /\ ret[1].diag = <<>>

(***************************************************************************)
(* C19. From a first run on empty checkout trees, the configs fixed and    *)
(* every run so far completed without failure: after each run the          *)
(* directories of a configured namespace are exactly the valid names of    *)
(* the mirror's refs of that namespace, and each directory holds the       *)
(* mirror's current revision of its ref.                                   *)
(***************************************************************************)
AllRunsOk == pc = "done" /\ \A i \in 1..Len(hist) : hist[i] = "ok"

CheckoutsMirrorRefs ==
    \A n \in NS : cfg[n] # None =>
        /\ DOMAIN tree[n] = ValidNames(n)
        /\ \A name \in DOMAIN tree[n] : tree[n][name] = mirror[1][n][name]

\* C19: after every run of a sequence of runs that all completed, the checkout
\* trees are the valid refs of the mirror at their current revisions.
Cex_C19_checkouts_equal_mirror_refs ==
    AllRunsOk => CheckoutsMirrorRefs

\* the part of it that is about the names of the directories
CheckoutNamesMirrorRefs ==
    AllRunsOk => \A n \in NS : cfg[n] # None => DOMAIN tree[n] = ValidNames(n)

(***************************************************************************)
(* C20. In a run on an existing mirror the fetch and both diffs are done   *)
(* before any checkout is touched, and the branches pass is over before    *)
(* the tags pass begins. So a run whose fetch fails leaves both trees as   *)
(* they were and emits no event, and a run whose branches pass fails       *)
(* touches no tag checkout and emits no tag event.                         *)
(***************************************************************************)
BranchesPassDone ==
    cfg.branches # None =>
        \A n \in Range(AddNames(diffs.branches)) :
            ValidIn("branches", n) =>
                \E i \in 1..Len(log) : log[i] = Entry("clone", "_add", "branches", n, "returns")

\* C20: nothing is touched before the fetch and the diffs are done, the
\* branches pass is over before the tags pass begins; a failed fetch leaves
\* both trees and emits nothing, a failed branches pass leaves the tags alone.
Thm_C20_fetch_then_branches_then_tags ==
    /\ [](pc = "sync" => log = <<>> /\ tree = start)
    /\ []((pc = "aborted" /\ Last(hist) = "fetch") =>
              /\ log = <<>>
              /\ tree = start
              /\ \A n \in NS : diffs[n] = EmptyDiff)
    /\ [][(log' # log /\ log' # <<>>) =>
              /\ diffs' = diffs /\ mirror' = mirror /\ upstream' = upstream
              /\ mirror = <<upstream>>]_vars
    /\ [](\A i, j \in 1..Len(log) : (log[i].ns = "tags" /\ log[j].ns = "branches") => j < i)
    /\ []((pc = "aborted" /\ ns = "branches") =>
              LogOf("tags") = <<>> /\ tree.tags = start.tags)
    /\ []((pc # "idle" /\ ns = "tags") => BranchesPassDone)

Wit_C20_branches_pass_fails ==
    /\ pc = "aborted"
    /\ ~FirstRun
    /\ Last(hist) = "clone"
    /\ ns = "branches"
    /\ cfg.tags # None
    /\ diffs.tags.added = <<main>>
    /\ main \notin DOMAIN tree.tags
    /\ \E i \in 1..Len(log) : log[i].op = "post-remove"

====
